---- MODULE Spec2Model ----
(***************************************************************************)
(* Key expressions of neovim_prompt (src/neovim_prompt/key.py): the        *)
(* SPECIAL_KEYS table, the recursive resolver _resolve /                   *)
(* _resolve_from_special_keys, and the Key.parse cache.                    *)
(*                                                                         *)
(* Text (Python str) is a sequence of code points, bytes a sequence of     *)
(* integers 0..255.  A key expression is a record [kind, val] whose kind   *)
(* is the Python type of the value.  A call returns a record               *)
(* [kind, val, depth]: kind "int" or "bytes" for a key code, kind "error"  *)
(* for a raised exception (val its class name); depth counts the resolver  *)
(* frames the call stacked up.                                             *)
(***************************************************************************)
EXTENDS Integers, Sequences, FiniteSets, TLC

VARIABLES
    nvim,       \* the editor: options.encoding and the vars dictionary
    cached,     \* Key.__cached: dictionary key |-> Key instance
    nextId,     \* allocation counter: the identity of the next Key instance
    returned,   \* history: <<expr, id>> of every successful Key.parse call
    arg,        \* the expression of the last call
    ret,        \* what the last call returned or raised
    pc          \* "idle" before the first call, "done" after a call

vars == <<nvim, cached, nextId, returned, arg, ret, pc>>

--------------------------------------------------------------------------
(* Bounds of the model *)

\* Frames the resolver may stack before the interpreter raises RecursionError.
MaxDepth == 12
\* Entries the cache may hold before further misses are cut off.
MaxCached == 2

--------------------------------------------------------------------------
(* Characters, text and bytes *)

\* The printable ASCII characters in code point order: 32..95, then 97..126.
AsciiLow == " !\"#$%&'()*+,-./0123456789:;<=>?@ABCDEFGHIJKLMNOPQRSTUVWXYZ[\\]^_"

AsciiHigh == "abcdefghijklmnopqrstuvwxyz{|}~"

Ord(c) ==
    IF \E i \in 1..Len(AsciiLow) : SubSeq(AsciiLow, i, i) = c
    THEN 31 + CHOOSE i \in 1..Len(AsciiLow) : SubSeq(AsciiLow, i, i) = c
    ELSE 96 + CHOOSE i \in 1..Len(AsciiHigh) : SubSeq(AsciiHigh, i, i) = c

StartsWith(b, p) == Len(b) >= Len(p) /\ SubSeq(b, 1, Len(p)) = p

EndsWith(b, p) == Len(b) >= Len(p) /\ SubSeq(b, Len(b) - Len(p) + 1, Len(b)) = p

\* The code point of every printable ASCII character.
OrdOf ==
    [c \in {SubSeq(AsciiLow, i, i) : i \in 1..Len(AsciiLow)}
            \cup {SubSeq(AsciiHigh, i, i) : i \in 1..Len(AsciiHigh)} |-> Ord(c)]

\* The text (equally: the ASCII bytes) of a string literal.
T(s) == [i \in 1..Len(s) |-> OrdOf[SubSeq(s, i, i)]]

\* bytes.upper(): only the ASCII letters a-z change.
UpperByte(x) == IF x >= OrdOf["a"] /\ x <= OrdOf["z"] THEN x - 32 ELSE x

Upper(b) == [i \in 1..Len(b) |-> UpperByte(b[i])]

\* Python's b[1:-1].
Slice1(b) == SubSeq(b, 2, Len(b) - 1)

\* Python's b[2:].
From2(b) == SubSeq(b, 3, Len(b))

\* n & 0x1f
And1F(n) == n % 32

--------------------------------------------------------------------------
(* Codes, errors *)

IntCode(n) == [kind |-> "int", val |-> n, depth |-> 1]

BytesCode(b) == [kind |-> "bytes", val |-> b, depth |-> 1]

Raise(e) == [kind |-> "error", val |-> e, depth |-> 1]

\* Key expressions by Python type.
StrExpr(t) == [kind |-> "str", val |-> t]

BytesExpr(b) == [kind |-> "bytes", val |-> b]

IntExpr(n) == [kind |-> "int", val |-> n]

\* The float n.0.
FloatExpr(n) == [kind |-> "float", val |-> n]

NoneExpr == [kind |-> "NoneType", val |-> 0]

ListExpr == [kind |-> "list", val |-> 0]

\* The callee's result seen from the caller: one frame deeper.
Deeper(r) == [r EXCEPT !.depth = r.depth + 1]

--------------------------------------------------------------------------
(* The editor's text conversions (neovim_prompt.util) *)

Encodings == {"utf-8", "latin1"}

\* One code point below U+0800 in UTF-8; a lone surrogate U+DC00 + byte is
\* that byte again.
Utf8EncodeChar(cp) ==
    IF cp < 128 THEN <<cp>>
    ELSE IF cp >= 56320 THEN <<cp - 56320>>
    ELSE <<192 + (cp \div 64), 128 + (cp % 64)>>

RECURSIVE Utf8Encode(_)
Utf8Encode(t) ==
    IF t = <<>> THEN <<>> ELSE Utf8EncodeChar(Head(t)) \o Utf8Encode(Tail(t))

\* UTF-8 to code points; a byte that starts no valid sequence is kept as the
\* lone surrogate U+DC00 + byte.
RECURSIVE Utf8Decode(_)
Utf8Decode(b) ==
    IF b = <<>> THEN <<>>
    ELSE IF b[1] < 128 THEN <<b[1]>> \o Utf8Decode(Tail(b))
    ELSE IF /\ b[1] >= 194 /\ b[1] <= 223
            /\ Len(b) >= 2 /\ b[2] >= 128 /\ b[2] <= 191
         THEN <<(b[1] - 192) * 64 + (b[2] - 128)>> \o Utf8Decode(SubSeq(b, 3, Len(b)))
    ELSE <<56320 + b[1]>> \o Utf8Decode(Tail(b))

get_encoding(nv) == nv.options.encoding

\* str -> bytes in the editor's encoding (text of code points below 256).
ensure_bytes(nv, t) ==
    IF get_encoding(nv) = "utf-8" THEN Utf8Encode(t) ELSE t

\* bytes -> str in the editor's encoding.
ensure_str(nv, b) ==
    IF get_encoding(nv) = "utf-8" THEN Utf8Decode(b) ELSE b

\* An integer code as one character.
int2chr(nv, code) == <<code>>

--------------------------------------------------------------------------
(* SPECIAL_KEYS *)

Marker == <<128>>

CTRL_KEY == <<128, 252, 4>>

META_KEY == <<128, 252, 8>>

\* curses.ascii.controlnames: the name at position i is the code i - 1.
controlnames ==
    << "NUL", "SOH", "STX", "ETX", "EOT", "ENQ", "ACK", "BEL",
       "BS",  "HT",  "LF",  "VT",  "FF",  "CR",  "SO",  "SI",
       "DLE", "DC1", "DC2", "DC3", "DC4", "NAK", "SYN", "ETB",
       "CAN", "EM",  "SUB", "ESC", "FS",  "GS",  "RS",  "US",
       "SP" >>

ControlKeys ==
    [n \in {controlnames[i] : i \in 1..Len(controlnames)} |->
        IntCode((CHOOSE i \in 1..Len(controlnames) : controlnames[i] = n) - 1)]

Special(s) == BytesCode(Marker \o T(s))

NamedKeys ==
    [ BSLASH |-> IntCode(Ord("\\")), LT |-> IntCode(Ord("<")),
      UP |-> Special("ku"), DOWN |-> Special("kd"),
      LEFT |-> Special("kl"), RIGHT |-> Special("kr"),
      F1 |-> Special("k1"), F2 |-> Special("k2"), F3 |-> Special("k3"),
      F4 |-> Special("k4"), F5 |-> Special("k5"), F6 |-> Special("k6"),
      F7 |-> Special("k7"), F8 |-> Special("k8"), F9 |-> Special("k9"),
      F10 |-> Special("k;"), F11 |-> Special("F1"), F12 |-> Special("F2"),
      F13 |-> Special("F3"), F14 |-> Special("F4"), F15 |-> Special("F5"),
      F16 |-> Special("F6"), F17 |-> Special("F7"), F18 |-> Special("F8"),
      F19 |-> Special("F9"), F20 |-> Special("FA"), F21 |-> Special("FB"),
      F22 |-> Special("FC"), F23 |-> Special("FD"), F24 |-> Special("FE"),
      HELP |-> Special("%1"), BACKSPACE |-> Special("kb"),
      INSERT |-> Special("kI"), DELETE |-> Special("kD"),
      HOME |-> Special("kh"), END |-> Special("@7"),
      PAGEUP |-> Special("kP"), PAGEDOWN |-> Special("kN") ]

\* dict.update: the entries of the second argument win.
Update(d, e) == e @@ d

BaseKeys == Update(ControlKeys, NamedKeys)

Aliases ==
    [ NOP |-> BaseKeys["NUL"], RETURN |-> BaseKeys["CR"],
      ENTER |-> BaseKeys["CR"], SPACE |-> BaseKeys["SP"],
      BS |-> BaseKeys["BACKSPACE"], INS |-> BaseKeys["INSERT"],
      DEL |-> BaseKeys["DELETE"] ]

SPECIAL_KEYS == Update(BaseKeys, Aliases)

\* The table keyed by the text of each name.
SpecialKeyTexts ==
    [t \in {T(n) : n \in DOMAIN SPECIAL_KEYS} |->
        SPECIAL_KEYS[CHOOSE n \in DOMAIN SPECIAL_KEYS : T(n) = t]]

\* name in SPECIAL_KEYS
InSpecialKeys(t) == t \in DOMAIN SpecialKeyTexts

\* SPECIAL_KEYS[name]
SpecialKey(t) == SpecialKeyTexts[t]

Lt == T("<")

Gt == T(">")

CtrlPrefix == T("C-")

MetaPrefix == T("M-")

AltPrefix == T("A-")

LEADER == T("LEADER")

LOCALLEADER == T("LOCALLEADER")

--------------------------------------------------------------------------
(* _resolve and _resolve_from_special_keys *)

\* The characters <C-x> turns into a control code directly.
CtrlChars == T("@ABCDEFGHIKLMNOPQRSTUVWXYZ[\\]^_?")

InBytes(x, b) == \E i \in 1..Len(b) : b[i] = x

\* curses.ascii.ctrl of an integer.
ctrl(c) == And1F(c)

\* b''.join([prefix, code]): code must be bytes.
Join(prefix, r) ==
    IF r.kind = "error" THEN r
    ELSE IF r.kind = "int" THEN [Raise("TypeError") EXCEPT !.depth = r.depth]
    ELSE [r EXCEPT !.val = prefix \o r.val]

\* code != inner
Differs(r, inner) == r.kind # "bytes" \/ r.val # inner

RECURSIVE _resolve(_, _, _)
RECURSIVE _resolve_from_special_keys(_, _, _)

\* Resolved falling back to inner instead of expr: the brackets are lost.
ResolvedStripped(code, inner, b) ==
    IF code.kind = "error" \/ Differs(code, inner)
    THEN code
    ELSE [BytesCode(inner) EXCEPT !.depth = code.depth]

\* Lines 149-151: the looked-up code, or expr when the lookup gave inner back.
Resolved(code, inner, b) ==
    IF code.kind = "error" \/ Differs(code, inner)
    THEN code
    ELSE [BytesCode(b) EXCEPT !.depth = code.depth]

\* Lines 145-151: the bytes that are neither one byte nor marker-prefixed.
ResolveSpecial(nv, b, d) ==
    IF StartsWith(b, Lt) \/ EndsWith(b, Gt)
    THEN Resolved(Deeper(_resolve_from_special_keys(nv, Slice1(b), d - 1)), Slice1(b), b)
    ELSE BytesCode(b)

\* d: the frames still free on the interpreter's stack.
_resolve(nv, expr, d) ==
    IF d = 0 THEN [Raise("RecursionError") EXCEPT !.depth = 0]
    ELSE IF expr.kind \in {"int", "bool"} THEN IntCode(expr.val)
    ELSE IF expr.kind = "str"
         THEN Deeper(_resolve(nv, BytesExpr(ensure_bytes(nv, expr.val)), d - 1))
    ELSE IF expr.kind = "bytes"
         THEN IF Len(expr.val) = 1 THEN IntCode(expr.val[1])
              ELSE IF StartsWith(expr.val, Marker) THEN BytesCode(expr.val)
              ELSE ResolveSpecial(nv, expr.val, d)
    ELSE Raise("AttributeError")

\* Lines 172-179: the leader variable, resolved as bytes.
ResolveLeader(nv, name, d) ==
    IF name \notin DOMAIN nv.vars THEN Raise("KeyError")
    ELSE Deeper(_resolve(nv, BytesExpr(ensure_bytes(nv, nv.vars[name])), d - 1))

\* Lines 157-180, with inner.upper() and its text at hand.
LookupUpper(nv, inner, inner_upper, inner_upper_str, d) ==
    IF InSpecialKeys(inner_upper_str) THEN SpecialKey(inner_upper_str)
    ELSE IF StartsWith(inner_upper, CtrlPrefix)
         THEN IF Len(inner) = 3 /\ InBytes(inner_upper[3], CtrlChars)
              THEN IntCode(ctrl(inner[3]))
              ELSE Join(CTRL_KEY, Deeper(_resolve_from_special_keys(nv, From2(inner), d - 1)))
    ELSE IF StartsWith(inner_upper, MetaPrefix) \/ StartsWith(inner_upper, AltPrefix)
         THEN Join(META_KEY, Deeper(_resolve_from_special_keys(nv, From2(inner), d - 1)))
    ELSE IF inner_upper = LEADER THEN ResolveLeader(nv, "mapleader", d)
    ELSE IF inner_upper = LOCALLEADER THEN ResolveLeader(nv, "maplocalleader", d)
    ELSE BytesCode(inner)

_resolve_from_special_keys(nv, inner, d) ==
    IF d = 0 THEN [Raise("RecursionError") EXCEPT !.depth = 0]
    ELSE LookupUpper(nv, inner, Upper(inner), ensure_str(nv, Upper(inner)), d)


--------------------------------------------------------------------------
(* Key.parse and its cache *)

\* Hashable without the unhashable types: the cache lookup raises nothing.
HashableAny(expr) == TRUE

\* hash(expr) is defined: a list is not hashable.
Hashable(expr) == expr.kind # "list"

\* The dictionary's notion of one key: == and hash agree; 97 == 97.0.
DictKey(expr) ==
    IF expr.kind \in {"int", "float"} THEN [kind |-> "number", val |-> expr.val]
    ELSE expr

\* InCache looking for the expression itself rather than for an equal key.
InCacheExact(expr, cache) == expr \in DOMAIN cache

\* expr in cls.__cached
InCache(expr, cache) == DictKey(expr) \in DOMAIN cache

\* Store into a fresh dictionary: the earlier entries are dropped.
StoreOnly(cache, expr, key) == [k \in {DictKey(expr)} |-> key]

\* cls.__cached[expr] = key
Store(cache, expr, key) ==
    [k \in DOMAIN cache \cup {DictKey(expr)} |->
        IF k = DictKey(expr) THEN key ELSE cache[k]]

\* CharOf without the test for the 0x80 marker: every byte code is decoded.
CharOfDecoded(nv, code) ==
    IF code.kind = "int" THEN int2chr(nv, code.val) ELSE ensure_str(nv, code.val)

\* Lines 120-125: the printable form of a code.
CharOf(nv, code) ==
    IF code.kind = "int" THEN int2chr(nv, code.val)
    ELSE IF ~StartsWith(code.val, Marker) THEN ensure_str(nv, code.val)
    ELSE <<>>

\* cls(code, char): a new instance, told apart by id.
NewKey(code, char, id) ==
    [code |-> [kind |-> code.kind, val |-> code.val], char |-> char, id |-> id]

Returns(key, depth) == [kind |-> "key", val |-> key, depth |-> depth]

\* Line 127 after lines 119-126: the new Key is stored and returned.
Insert(expr, key, depth) ==
    /\ Cardinality(DOMAIN cached) < MaxCached
    /\ cached' = Store(cached, expr, key)
    /\ nextId' = nextId + 1
    /\ ret' = Returns(key, depth)
    /\ returned' = returned \cup {<<expr, key.id>>}

\* Lines 119-127: expr is not cached.
Miss(expr, code) ==
    IF code.kind = "error"
    THEN /\ ret' = code
         /\ UNCHANGED <<cached, nextId, returned>>
    ELSE Insert(expr, NewKey(code, CharOf(nvim, code), nextId), code.depth)

\* Line 127 alone: expr is cached.
Hit(expr, key) ==
    /\ ret' = Returns(key, 0)
    /\ returned' = returned \cup {<<expr, key.id>>}
    /\ UNCHANGED <<cached, nextId>>

\* Key.parse(nvim, expr), with the cache not yet at the model's bound.
parse(expr) ==
    /\ arg' = expr
    /\ pc' = "parsed"
    /\ UNCHANGED nvim
    /\ IF ~Hashable(expr)
       THEN /\ ret' = Raise("TypeError")
            /\ UNCHANGED <<cached, nextId, returned>>
       ELSE IF ~InCache(expr, cached)
       THEN Miss(expr, _resolve(nvim, expr, MaxDepth))
       ELSE Hit(expr, cached[DictKey(expr)])

\* _resolve(nvim, expr) called on its own.
resolve(expr) ==
    /\ arg' = expr
    /\ pc' = "resolved"
    /\ ret' = _resolve(nvim, expr, MaxDepth)
    /\ UNCHANGED <<nvim, cached, nextId, returned>>

\* _resolve_from_special_keys(nvim, inner) called on its own.
lookup(expr) ==
    /\ expr.kind = "bytes"
    /\ arg' = expr
    /\ pc' = "looked"
    /\ ret' = _resolve_from_special_keys(nvim, expr.val, MaxDepth)
    /\ UNCHANGED <<nvim, cached, nextId, returned>>

--------------------------------------------------------------------------
(* The editor *)

\* :let g:mapleader = t, :let g:maplocalleader = t
SetVar(name, t) ==
    /\ nvim' = [nvim EXCEPT !.vars =
                   [n \in DOMAIN nvim.vars \cup {name} |->
                       IF n = name THEN t ELSE nvim.vars[n]]]
    /\ UNCHANGED <<cached, nextId, returned, arg, ret, pc>>

\* :set encoding=enc
SetEncoding(enc) ==
    /\ nvim' = [nvim EXCEPT !.options.encoding = enc]
    /\ UNCHANGED <<cached, nextId, returned, arg, ret, pc>>

NoVars == [n \in {} |-> <<>>]

Editor(enc, vs) == [options |-> [encoding |-> enc], vars |-> vs]

Idle == [kind |-> "none", val |-> 0, depth |-> 0]

--------------------------------------------------------------------------
(* The session: Key.parse called over and over while the editor changes *)

ParseExprs ==
    { IntExpr(97), FloatExpr(97), NoneExpr, ListExpr,
      StrExpr(T("<Leader>")), StrExpr(T("<Insert>")), StrExpr(T("<Unknown>")),
      StrExpr(T("<C-CR>")), StrExpr(<<233>>), BytesExpr(T("a")),
      StrExpr(T("<LocalLeader>")) }

VarSettings ==
    { <<"mapleader", T("\\")>>, <<"mapleader", T("<CR>")>>,
      <<"maplocalleader", T(",")>> }

Init ==
    /\ nvim = Editor("utf-8", NoVars)
    /\ cached = NoVars
    /\ nextId = 1
    /\ returned = {}
    /\ arg = NoneExpr
    /\ ret = Idle
    /\ pc = "idle"

Next ==
    \/ \E e \in ParseExprs : parse(e)
    \/ \E s \in VarSettings : SetVar(s[1], s[2])
    \/ \E enc \in Encodings : SetEncoding(enc)

Spec == Init /\ [][Next]_vars

--------------------------------------------------------------------------
(* One call on one expression in one editor configuration *)

Modifiers == {"C-", "c-", "M-", "m-", "A-", "a-"}

ModifierChains ==
    {"", "C-M-", "M-C-", "c-m-", "C-C-", "M-M-", "A-C-", "m-a-", "C-M-A-", "c-c-c-"}
        \cup Modifiers

SpecialNames ==
    { "Insert", "INSERT", "insert", "F1", "f1", "Left", "BS", "bs", "Del",
      "CR", "cr", "Space", "Esc", "BSlash", "lt", "Nop", "HT" }

OtherNames ==
    { "Leader", "leader", "LEADER", "LocalLeader", "localleader",
      "Unknown", "Tab", "x", "X", "j", "J", "1", "-" }

CtrlAble == "ABCDEFGHIJKLMNOPQRSTUVWXYZabcdefghijklmnopqrstuvwxyz@[\\]^_?"

\* The names inside the brackets.
Inners ==
    {T(m \o n) : m \in ModifierChains, n \in SpecialNames \cup OtherNames}
        \cup {T(m) \o <<233>> : m \in {"", "C-", "M-"}}
        \cup {T(m \o SubSeq(CtrlAble, i, i)) : m \in {"C-", "c-"}, i \in 1..Len(CtrlAble)}

Bracketed(t) == Lt \o t \o Gt

ResolveExprs ==
    {StrExpr(Bracketed(t)) : t \in Inners}
        \cup {BytesExpr(t) : t \in Inners}
        \cup { StrExpr(T("<CRx")), StrExpr(T("xCR>")), StrExpr(T("<>")),
               StrExpr(T(">")), StrExpr(<<>>), StrExpr(T("ab")),
               StrExpr(<<233, 62>>), StrExpr(<<128, 107>>),
               BytesExpr(Bracketed(T("Insert"))), BytesExpr(<<233>>),
               BytesExpr(<<128, 107, 73>>), BytesExpr(<<128>>),
               IntExpr(0), IntExpr(97), IntExpr(233), IntExpr(255),
               FloatExpr(97), NoneExpr, ListExpr }

LeaderSettings ==
    { NoVars,
      [mapleader |-> T("\\"), maplocalleader |-> T(",")],
      [mapleader |-> T(",,"), maplocalleader |-> <<233>>],
      [mapleader |-> T("<CR>"), maplocalleader |-> T("<Insert>")],
      [mapleader |-> T("<x"), maplocalleader |-> T("<Nope>")],
      [mapleader |-> T("<Leader>"), maplocalleader |-> T("_")],
      [mapleader |-> T("<LocalLeader>"), maplocalleader |-> T("<Leader>")] }

Editors == {Editor(enc, vs) : enc \in Encodings, vs \in LeaderSettings}

\* The expressions whose resolution reads a leader variable.
LeaderNames == {"Leader", "leader", "LEADER", "LocalLeader", "localleader"}

LeaderInners == {T(m \o n) : m \in ModifierChains, n \in LeaderNames}

LeaderExprs ==
    {StrExpr(Bracketed(t)) : t \in LeaderInners} \cup {BytesExpr(t) : t \in LeaderInners}

InitResolve ==
    /\ \/ nvim \in Editors /\ arg \in LeaderExprs
       \/ nvim \in {Editor(enc, NoVars) : enc \in Encodings} /\ arg \in ResolveExprs
    /\ cached = NoVars
    /\ nextId = 1
    /\ returned = {}
    /\ ret = Idle
    /\ pc = "idle"

ParseOnce == pc = "idle" /\ parse(arg)

ResolveOnce == pc = "idle" /\ resolve(arg)

LookupOnce == pc = "idle" /\ lookup(arg)

NextResolve == ParseOnce \/ ResolveOnce \/ LookupOnce

SpecResolve == InitResolve /\ [][NextResolve]_vars

--------------------------------------------------------------------------
(* Vocabulary of the properties *)

ValidKinds == {"int", "bytes", "str"}

\* Python's ==: an integer and a float of the same value are equal; values
\* of other different types are not.
ValueEqual(a, b) ==
    IF a.kind \in {"int", "float"} /\ b.kind \in {"int", "float"}
    THEN a.val = b.val
    ELSE a.kind = b.kind /\ a.val = b.val

\* k is the dictionary key under which expression e is stored.
KeyFor(k, e) ==
    /\ k.kind = (IF e.kind \in {"int", "float"} THEN "number" ELSE e.kind)
    /\ k.val = e.val

IsError(r, e) == r.kind = "error" /\ r.val = e

\* The result r is the code c (whatever frames it took).
IsCode(r, c) == r.kind = c.kind /\ r.val = c.val

\* The bytes _resolve works on for a str or bytes expression.
BytesOf(nv, e) == IF e.kind = "str" THEN ensure_bytes(nv, e.val) ELSE e.val

\* The text whose encoding is b: what decoding b must give.
IsDecodedText(nv, t, b) == ensure_bytes(nv, t) = b

--------------------------------------------------------------------------
(* C1 *)

\* C1: whatever calls came before (other expressions, failing calls), any two
\* successful Key.parse calls with value-equal expressions returned the same
\* Key instance.
C1_SameInstance ==
    \A p \in returned : \A q \in returned :
        ValueEqual(p[1], q[1]) => p[2] = q[2]

\* A cache hit on one expression while another is cached and after the
\* instance was also handed out for a value-equal expression of another type.
C1_Witness ==
    /\ pc = "parsed" /\ ret.kind = "key" /\ ret.depth = 0
    /\ Cardinality(DOMAIN cached) = 2
    /\ \E p \in returned : \E q \in returned : p[1] # q[1] /\ p[2] = q[2]

--------------------------------------------------------------------------
(* C2 *)

\* C2 as stated: Key.parse of an expression that is no int, bytes or str
\* always raises the invalid-expression-kind error (AttributeError).
C2_InvalidKindAlwaysRaises ==
    (pc = "parsed" /\ arg.kind \notin ValidKinds) => IsError(ret, "AttributeError")

\* C2 amended: _resolve raises AttributeError for every expression that is no
\* int, bytes or str.  Key.parse of such an expression never adds it to the
\* cache and raises that error when the expression is hashable and the cache
\* holds no value-equal key; an unhashable expression fails in the cache
\* lookup with TypeError, and a float equal to a cached integer is a hit that
\* returns the cached Key.
C2_InvalidKind ==
    (pc = "parsed" /\ arg.kind \notin ValidKinds) =>
        /\ IsError(_resolve(nvim, arg, MaxDepth), "AttributeError")
        /\ \A k \in DOMAIN cached : k.kind \in ValidKinds \cup {"number"}
        /\ IF arg.kind = "list" THEN IsError(ret, "TypeError")
           ELSE IF \E k \in DOMAIN cached : KeyFor(k, arg)
                THEN \E k \in DOMAIN cached :
                        KeyFor(k, arg) /\ ret.kind = "key" /\ ret.val = cached[k]
                ELSE IsError(ret, "AttributeError")

\* Each case happened: here the float hit, with the integer's Key returned.
C2_Witness ==
    /\ pc = "parsed" /\ arg = FloatExpr(97)
    /\ ret.kind = "key" /\ ret.val.code.val = 97

--------------------------------------------------------------------------
(* C7 *)

\* The char of a Key fits its code, read in editor nv.
CharFits(nv, key) ==
    IF key.code.kind = "int" THEN key.char = <<key.code.val>>
    ELSE IF Len(key.code.val) > 0 /\ key.code.val[1] = 128 THEN key.char = <<>>
    ELSE IsDecodedText(nv, key.char, key.code.val)

\* C7: every Key in the cache has char = "" when its code is a byte sequence
\* starting with 0x80 and char = the one character of the code when the code
\* is an integer; every Key entering the cache with any other code has as char
\* the text those bytes decode to in the editor's encoding; and a
\* one-character text is cached with that character as char.
C7_CharOfCode ==
    /\ [](\A k \in DOMAIN cached :
            /\ cached[k].code.kind = "int" => cached[k].char = <<cached[k].code.val>>
            /\ (cached[k].code.kind = "bytes" /\ StartsWith(cached[k].code.val, Marker))
                    => cached[k].char = <<>>
            /\ (k.kind = "str" /\ Len(k.val) = 1) => cached[k].char = k.val)
    /\ [][\A k \in DOMAIN cached' \ DOMAIN cached : CharFits(nvim, cached'[k])]_vars

\* The cache holds a special key without char and a Key of decoded bytes.
C7_Witness ==
    /\ \E k \in DOMAIN cached :
          cached[k].code.kind = "bytes" /\ StartsWith(cached[k].code.val, Marker)
    /\ \E k \in DOMAIN cached :
          /\ cached[k].code.kind = "bytes" /\ ~StartsWith(cached[k].code.val, Marker)
          /\ Len(cached[k].char) = 1

--------------------------------------------------------------------------
(* C10 *)

C10_Step ==
    /\ \A k \in DOMAIN cached : k \in DOMAIN cached' /\ cached'[k] = cached[k]
    /\ \A k \in DOMAIN cached' \ DOMAIN cached :
          /\ DOMAIN cached' = DOMAIN cached \cup {k}
          /\ nvim' = nvim /\ pc' = "parsed"
          /\ KeyFor(k, arg')
          /\ ret'.kind = "key" /\ ret'.val = cached'[k]
    /\ (pc' = "parsed" /\ ret'.kind = "error") => cached' = cached
    /\ \A k \in DOMAIN cached :
          (pc' = "parsed" /\ KeyFor(k, arg')) => (ret'.kind = "key" /\ ret'.val = cached[k])

\* C10: the cache is empty before the first call; a step adds at most one
\* entry, and only a successful Key.parse miss does, under the key of its
\* expression and with the Key it returns; a failing call and a hit leave the
\* cache as it was; no entry is removed or replaced, and a hit returns the
\* stored Key whatever the leader variables and the encoding have become.
C10_CacheFrame ==
    /\ [](pc = "idle" => DOMAIN cached = {})
    /\ [][C10_Step]_vars

\* <Leader> was cached under leader \ and is returned from the cache although
\* the leader is now <CR>, which would resolve to 13.
C10_Witness ==
    /\ pc = "parsed" /\ arg = StrExpr(T("<Leader>"))
    /\ ret.kind = "key" /\ ret.depth = 0 /\ ret.val.code.val = 92
    /\ "mapleader" \in DOMAIN nvim.vars /\ nvim.vars["mapleader"] = T("<CR>")

--------------------------------------------------------------------------
(* Vocabulary of the notation *)

IsLetter(x) == UpperByte(x) >= OrdOf["A"] /\ UpperByte(x) <= OrdOf["Z"]

\* The set the <C-x> shortcut is meant for: every letter, and @ [ \ ] ^ _ ?
CtrlAbleSet == {x \in 0..127 : IsLetter(x)} \cup {T("@[\\]^_?")[i] : i \in 1..7}

HasCtrl(b) == StartsWith(Upper(b), CtrlPrefix)

HasMeta(b) == StartsWith(Upper(b), MetaPrefix) \/ StartsWith(Upper(b), AltPrefix)

\* <C-x> with x in the ctrl-able set.
IsCtrlShortcut(b) == HasCtrl(b) /\ Len(b) = 3 /\ b[3] \in CtrlAbleSet

IsSpecialName(nv, b) == ensure_str(nv, Upper(b)) \in {T(n) : n \in DOMAIN SPECIAL_KEYS}

IsLeaderName(b) == Upper(b) \in {LEADER, LOCALLEADER}

\* name of the grammar: a special-key name, one literal character, or a
\* modifier prefix before such a name.
RECURSIVE IsName(_, _)
IsName(nv, b) ==
    \/ IsSpecialName(nv, b)
    \/ Len(ensure_str(nv, b)) = 1
    \/ (HasCtrl(b) \/ HasMeta(b)) /\ IsName(nv, From2(b))

\* b is <inner>.
IsBracketed(b) == Len(b) >= 2 /\ b[1] = OrdOf["<"] /\ b[Len(b)] = OrdOf[">"]

--------------------------------------------------------------------------
(* C3 *)

\* C3: for every x of the ctrl-able set, <C-x> resolves to the integer
\* control code of x (x masked to five bits: <C-a> gives 1), never to bytes.
C3_CtrlShortcut ==
    ( /\ pc = "resolved" /\ arg.kind = "str"
      /\ IsBracketed(arg.val) /\ IsCtrlShortcut(Slice1(arg.val)) )
        => IsCode(ret, IntCode(And1F(arg.val[4])))

--------------------------------------------------------------------------
(* C4 *)

\* C4: for every remainder r of the grammar that does not take the <C-x>
\* shortcut, the lookup of C-r (of M-r, A-r) raises nothing and returns the
\* control (meta) marker followed by the lookup result of r.
C4_ModifierPrefix ==
    ( /\ pc = "looked"
      /\ HasCtrl(arg.val) \/ HasMeta(arg.val)
      /\ IsName(nvim, From2(arg.val))
      /\ ~IsCtrlShortcut(arg.val) )
        => /\ ret.kind = "bytes"
           /\ StartsWith(ret.val, IF HasCtrl(arg.val) THEN CTRL_KEY ELSE META_KEY)
           /\ _resolve_from_special_keys(nvim, From2(arg.val), MaxDepth).kind = "bytes"
                => From2(From2(ret.val)) =
                        Tail(_resolve_from_special_keys(nvim, From2(arg.val), MaxDepth).val)

--------------------------------------------------------------------------
(* C5 *)

\* The code of bytes taken as they are: the ordinal of a single byte, else the
\* bytes themselves.
PlainCode(b) == IF Len(b) = 1 THEN IntCode(b[1]) ELSE BytesCode(b)

LeaderVar(b) == IF Upper(b) = LEADER THEN "mapleader" ELSE "maplocalleader"

\* C5: whatever the leader (local-leader) variable is set to, <Leader>
\* (<LocalLeader>) resolves to the code of its encoded text taken as plain
\* bytes: the ordinal of a single byte, and otherwise the bytes unchanged,
\* brackets or not.
C5_LeaderIsPlainBytes ==
    ( /\ pc = "resolved" /\ arg.kind = "str"
      /\ IsBracketed(arg.val) /\ IsLeaderName(Slice1(arg.val))
      /\ LeaderVar(Slice1(arg.val)) \in DOMAIN nvim.vars )
        => IsCode(ret, PlainCode(ensure_bytes(nvim, nvim.vars[LeaderVar(Slice1(arg.val))])))

--------------------------------------------------------------------------
(* C6 *)

\* Neither a leading < nor a trailing >: no bracket layer to strip.
NoBracket(b) == b[1] # OrdOf["<"] /\ b[Len(b)] # OrdOf[">"]

\* A name the lookup knows nothing about: no table entry, no modifier prefix,
\* no leader.
IsUnknownName(nv, b) ==
    ~IsSpecialName(nv, b) /\ ~HasCtrl(b) /\ ~HasMeta(b) /\ ~IsLeaderName(b)

\* The lookup hands inner back.
LeftUnresolved(nv, inner) ==
    IsCode(_resolve_from_special_keys(nv, inner, MaxDepth), BytesCode(inner))

\* C6: a sequence of two or more bytes that does not start with 0x80 and
\* either has no bracket to strip (no leading <, no trailing >), or has an
\* inner name unknown to the lookup or handed back by it, raises nothing:
\* _resolve returns the very bytes, and Key.parse gives the Key whose code is
\* those bytes and whose char is the text they decode to.
C6_UnknownIsLiteral ==
    ( /\ pc \in {"resolved", "parsed"} /\ arg.kind \in {"str", "bytes"}
      /\ Len(BytesOf(nvim, arg)) > 1
      /\ BytesOf(nvim, arg)[1] # 128
      /\ \/ NoBracket(BytesOf(nvim, arg))
         \/ IsUnknownName(nvim, Slice1(BytesOf(nvim, arg)))
         \/ LeftUnresolved(nvim, Slice1(BytesOf(nvim, arg))) )
        => IF pc = "resolved"
           THEN IsCode(ret, BytesCode(BytesOf(nvim, arg)))
           ELSE /\ ret.kind = "key"
                /\ IsCode(ret.val.code, BytesCode(BytesOf(nvim, arg)))
                /\ IsDecodedText(nvim, ret.val.char, BytesOf(nvim, arg))
                /\ arg.kind = "str" => ret.val.char = arg.val

\* <Unknown> was parsed: the Key's code is the nine bytes, its char the text.
C6_Witness ==
    /\ pc = "parsed" /\ arg = StrExpr(T("<Unknown>"))
    /\ ret.kind = "key" /\ ret.val.code.val = T("<Unknown>")
    /\ ret.val.char = T("<Unknown>")

--------------------------------------------------------------------------
(* C8 *)

\* The notation with every letter whose case the lookup is to ignore in upper
\* case: modifier prefixes, special-key names, Leader and LocalLeader, and the
\* letter of a <C-x> shortcut.
RECURSIVE UpperNotation(_, _)
UpperNotation(nv, b) ==
    IF IsSpecialName(nv, b) \/ IsLeaderName(b) \/ IsCtrlShortcut(b) THEN Upper(b)
    ELSE IF HasCtrl(b) \/ HasMeta(b)
         THEN Upper(SubSeq(b, 1, 2)) \o UpperNotation(nv, From2(b))
    ELSE b

\* Key.parse of expr in an empty cache gives r, as far as values go.
SameOutcome(nv, r, code) ==
    IF code.kind = "error" THEN IsError(r, code.val)
    ELSE /\ r.kind = "key"
         /\ IsCode(r.val.code, code)
         /\ r.val.char = CharOf(nv, code)

\* C8: two notations that differ only in the case of modifier prefixes, of a
\* special-key name, of Leader/LocalLeader or of the letter of a <C-x>
\* shortcut parse to value-equal Keys: each parses as its upper-case form does.
C8_CaseInsensitive ==
    ( /\ pc = "parsed" /\ arg.kind = "str"
      /\ IsBracketed(BytesOf(nvim, arg)) )
        => SameOutcome(nvim, ret,
              _resolve(nvim,
                       BytesExpr(Bracketed(UpperNotation(nvim, Slice1(BytesOf(nvim, arg))))),
                       MaxDepth))

--------------------------------------------------------------------------
(* C9 *)

VarLen(nv, name) ==
    IF name \in DOMAIN nv.vars THEN Len(ensure_bytes(nv, nv.vars[name])) ELSE 0

\* C9: every resolution comes to an end without running the interpreter out
\* of stack, and stacks no more frames than the expression and the leader
\* variables have bytes (two more for the entry frames).
C9_Terminates ==
    pc # "idle" =>
        /\ ~IsError(ret, "RecursionError")
        /\ arg.kind \in {"str", "bytes"} =>
              ret.depth <= Len(BytesOf(nvim, arg)) + VarLen(nvim, "mapleader")
                              + VarLen(nvim, "maplocalleader") + 2

====
